---- MODULE Spec2Model ----
(***************************************************************************)
(* Model of vault/src/crypto_box.rs: the BoxProvider interface, the Key    *)
(* container with its drop hook, and the Encrypt / Decrypt traits.         *)
(***************************************************************************)
EXTENDS Integers, Sequences, FiniteSets, TLC

----------------------------------------------------------------------------
(* Bounds of the model *)

\* number of Key values constructed in one behaviour
MaxKeys == 2
\* the provider's key length in bytes
KeyLen == 2
\* byte length of the fixed-size payload type used with Decrypt
PayloadLen == 1

\* sample u8 values
Byte == {0, 1}
\* longest plaintext handed to encrypt
MaxData == PayloadLen + 1

KeyIds == 1..MaxKeys

\* the static hook functions callers register
Hooks == {"zeroize", "archive"}
None == "None"

RECURSIVE SeqsUpTo(_)
SeqsUpTo(n) == IF n = 0 THEN {<<>>}
               ELSE LET S == SeqsUpTo(n - 1)
                    IN S \cup {Append(s, b) : s \in {t \in S : Len(t) = n - 1}, b \in Byte}

SeqsOfLen(n) == {s \in SeqsUpTo(n) : Len(s) = n}

RECURSIVE Sum(_)
Sum(s) == IF s = <<>> THEN 0 ELSE Head(s) + Sum(Tail(s))

----------------------------------------------------------------------------
(* Results: crate::Result<T> *)

Ok(v) == [ok |-> TRUE, val |-> v, err |-> None]
Err(e) == [ok |-> FALSE, val |-> None, err |-> e]

InterfaceError == "InterfaceError"
InvalidEntry == "DatabaseError(Invalid Entry)"
\* the errors a provider reports from seal / open / random
CryptoErrors == {"CryptoError(open)", "CryptoError(seal)", "CryptoError(random)"}

----------------------------------------------------------------------------
(* BoxProvider *)

box_key_len == KeyLen
box_overhead == 1

PhantomData == "PhantomData"

\* keystream byte and authentication tag of the sample provider
Mix(key, i) == (Sum(key) + Len(key) + i) % 2
Tag(key, ad, data) == (Sum(key) + Sum(ad) + Len(ad) + Sum(data) + 1) % 2

box_seal(key, ad, data, entropy) ==
    IF ~entropy THEN Err("CryptoError(seal)")
    ELSE Ok(<<Tag(key.key, ad, data)>>
            \o [i \in 1..Len(data) |-> (data[i] + Mix(key.key, i)) % 2])

box_open(key, ad, data) ==
    IF Len(data) < box_overhead THEN Err("CryptoError(open)")
    ELSE LET body == Tail(data)
             plain == [i \in 1..Len(body) |-> (body[i] + Mix(key.key, i)) % 2]
         IN IF Head(data) # Tag(key.key, ad, plain) THEN Err("CryptoError(open)")
            ELSE Ok(plain)

\* random_buf fills the slice it is given: gen.bytes is what the generator
\* wrote, gen.ok is FALSE when the generator failed
random_buf(buf, gen) ==
    IF ~gen.ok THEN Err("CryptoError(random)")
    ELSE Ok([i \in 1..Len(buf) |-> gen.bytes[i]])

random_vec(len, gen) ==
    LET buf == [i \in 1..len |-> 0]
        r == random_buf(buf, gen)
    IN IF r.ok THEN Ok(r.val) ELSE r

----------------------------------------------------------------------------
(* Key *)

MkKey(raw, hook) == [key |-> raw, drop_fn |-> hook, _box_provider |-> PhantomData]

random(gen) ==
    LET r == random_vec(box_key_len, gen)
    IN IF r.ok THEN Ok(MkKey(r.val, None)) ELSE r

\* load that rejects only vectors that are too short
load_min_length(key) ==
    IF Len(key) < box_key_len THEN Err(InterfaceError)
    ELSE Ok(MkKey(key, None))

load(key) ==
    IF Len(key) # box_key_len THEN Err(InterfaceError)
    ELSE Ok(MkKey(key, None))

\* on_drop that keeps a hook that is already registered
on_drop_keep_first(self, hook) ==
    IF self.drop_fn = None THEN [self EXCEPT !.drop_fn = hook] ELSE self

on_drop(self, hook) == [self EXCEPT !.drop_fn = hook]

bytes(self) == self.key

\* clone that does not carry the hook
clone_without_hook(self) == MkKey(self.key, None)

clone(self) == MkKey(self.key, self.drop_fn)

\* equality that also compares the hooks
eq_with_hook(self, other) ==
    self.key = other.key /\ self.drop_fn = other.drop_fn /\ self._box_provider = other._box_provider

eq(self, other) == self.key = other.key /\ self._box_provider = other._box_provider

\* what hash() feeds to the Hasher: Vec<u8> writes its length and its bytes,
\* PhantomData writes nothing
hash(self) == <<Len(self.key)>> \o self.key

\* drop that scrubs the buffer before it hands it to the hook
drop_scrub_first(self) ==
    IF self.drop_fn # None
    THEN <<[hook |-> self.drop_fn, buf |-> [i \in 1..Len(self.key) |-> 0]]>>
    ELSE <<>>

\* the hook calls made by Drop::drop, each with the buffer it is handed
drop(self) ==
    IF self.drop_fn # None THEN <<[hook |-> self.drop_fn, buf |-> self.key]>>
    ELSE <<>>

\* derive(Serialize, Deserialize) with drop_fn skipped both ways
serialize(self) == [key |-> self.key, _box_provider |-> "unit"]

\* deserialize that reads a drop_fn entry when the input has one
deserialize_reads_hook(blob) ==
    IF "key" \notin DOMAIN blob THEN Err("missing field key")
    ELSE IF "_box_provider" \notin DOMAIN blob THEN Err("missing field _box_provider")
    ELSE Ok(MkKey(blob.key, IF "drop_fn" \in DOMAIN blob THEN blob.drop_fn ELSE None))

deserialize(blob) ==
    IF "key" \notin DOMAIN blob THEN Err("missing field key")
    ELSE IF "_box_provider" \notin DOMAIN blob THEN Err("missing field _box_provider")
    ELSE Ok(MkKey(blob.key, None))

----------------------------------------------------------------------------
(* Encrypt / Decrypt *)

\* AsRef<[u8]> of a plaintext or ciphertext value
as_ref(x) == x.bytes

\* From<Vec<u8>> of the ciphertext type
from(v) == [kind |-> "sealed", bytes |-> v]

\* TryFrom<Vec<u8>> of the payload type: a fixed-size record
try_from(v) ==
    IF Len(v) = PayloadLen THEN Ok([kind |-> "payload", bytes |-> v])
    ELSE Err("TryFromSliceError")

\* encrypt that seals without the associated data
encrypt_drops_ad(self, key, ad, entropy) ==
    LET sealed == box_seal(key, <<>>, as_ref(self), entropy)
    IN IF ~sealed.ok THEN sealed ELSE Ok(from(sealed.val))

encrypt(self, key, ad, entropy) ==
    LET sealed == box_seal(key, ad, as_ref(self), entropy)
    IN IF ~sealed.ok THEN sealed ELSE Ok(from(sealed.val))

\* decrypt that surfaces the conversion's own error
decrypt_raw_error(self, key, ad) ==
    LET opened == box_open(key, ad, as_ref(self))
    IN IF ~opened.ok THEN [res |-> opened, conv |-> <<>>]
       ELSE LET t == try_from(opened.val)
            IN [res |-> IF t.ok THEN Ok(t.val) ELSE Err(t.err),
                conv |-> <<opened.val>>]

\* the result of decrypt and, in conv, the conversions it attempted
decrypt(self, key, ad) ==
    LET opened == box_open(key, ad, as_ref(self))
    IN IF ~opened.ok THEN [res |-> opened, conv |-> <<>>]
       ELSE LET t == try_from(opened.val)
            IN [res |-> IF t.ok THEN Ok(t.val) ELSE Err(InvalidEntry),
                conv |-> <<opened.val>>]

----------------------------------------------------------------------------
(* Inputs callers present *)

\* sample key material of the provider's length
KeySamples == {[i \in 1..KeyLen |-> 0], [i \in 1..KeyLen |-> 1]}
\* byte vectors handed to load: right length, one short, one long
TooLong == [i \in 1..(KeyLen + 1) |-> 1]
TooShort == [i \in 1..(KeyLen - 1) |-> 1]
LoadInputs == KeySamples \cup {TooShort, TooLong}
\* vectors a caller leaves in a buffer it can write
BufValues == KeySamples \cup {TooLong}
\* serialized inputs handed to the deserializer: any envelope with a `key`
\* field, with or without a stray drop_fn entry, and one without `key`
\* what the secure random generator does on one call
Generators == {[ok |-> TRUE, bytes |-> s] : s \in KeySamples} \cup {[ok |-> FALSE, bytes |-> <<>>]}
\* Key values a caller can hold
KeyValues == {MkKey(v, h) : v \in BufValues, h \in Hooks \cup {None}}
\* plaintext values handed to encrypt: payload records and raw data
Plaintexts == {[kind |-> "payload", bytes |-> v] : v \in SeqsOfLen(PayloadLen)}
              \cup {[kind |-> "raw", bytes |-> v] : v \in SeqsUpTo(MaxData)}
\* associated data
Ads == SeqsUpTo(1)
Blobs == {[key |-> s, _box_provider |-> "unit"] : s \in BufValues}
         \cup {[key |-> s, _box_provider |-> "unit", drop_fn |-> "zeroize"] : s \in KeySamples}
         \cup {[_box_provider |-> "unit"]}

----------------------------------------------------------------------------
(* State *)

VARIABLES
    keys,       \* keys[k]: the Key value held under handle k
    st,         \* st[k]: "none" (not constructed), "live" or "dropped"
    calls,      \* calls[k]: the hooks invoked on key k so far, in order
    attached,   \* attached[k]: the hook given to the latest on_drop call on k; n is 0 before
                \* any call, 2 once a call replaced a different hook, 1 otherwise
    origin,     \* origin[k]: the hook k was constructed with
    last,       \* the latest operation, its arguments and its result
    box         \* the ciphertext in hand, how it was sealed and what decrypt made of it

vars == <<keys, st, calls, attached, origin, last, box>>

\* no on_drop call was made yet
NoAttach == [hook |-> None, n |-> 0]
NoValue == [kind |-> "none", bytes |-> <<>>]
NoBox == [pt |-> NoValue, ad |-> <<>>, k |-> 0, ct |-> NoValue, sealed |-> FALSE,
          dad |-> <<>>, conv |-> <<>>, val |-> NoValue]
\* the slot of a key that is not (or no longer) in memory
Freed == [key |-> <<>>, drop_fn |-> None, _box_provider |-> PhantomData]

Constructed == {k \in KeyIds : st[k] # "none"}
Live == {k \in KeyIds : st[k] = "live"}
Dropped == {k \in KeyIds : st[k] = "dropped"}
HasFree == \E k \in KeyIds : st[k] = "none"
NextId == CHOOSE k \in KeyIds : st[k] = "none" /\ \A j \in KeyIds : st[j] = "none" => k <= j

\* op on key k (and other key j, 0 when there is none) returned res;
\* out is the byte vector it took or gave
Op(op, k, j, res, out) ==
    [op |-> op, k |-> k, j |-> j, ok |-> res.ok, err |-> res.err, out |-> out,
     calls |-> <<>>, hook |-> None, n |-> Cardinality(Constructed)]

Init ==
    /\ keys = [k \in KeyIds |-> Freed]
    /\ st = [k \in KeyIds |-> "none"]
    /\ calls = [k \in KeyIds |-> <<>>]
    /\ attached = [k \in KeyIds |-> NoAttach]
    /\ origin = [k \in KeyIds |-> None]
    /\ last = Op("init", 0, 0, Ok(None), <<>>)
    /\ box = NoBox

\* a constructor returned r: on success the new Key is held under a fresh handle
Construct(op, j, r, out) ==
    IF r.ok
    THEN /\ HasFree
         /\ keys' = [keys EXCEPT ![NextId] = r.val]
         /\ st' = [st EXCEPT ![NextId] = "live"]
         /\ origin' = [origin EXCEPT ![NextId] = r.val.drop_fn]
         /\ last' = Op(op, NextId, j, r, out)
         /\ UNCHANGED <<calls, attached, box>>
    ELSE /\ last' = Op(op, 0, j, r, out)
         /\ UNCHANGED <<keys, st, calls, attached, origin, box>>

Random(gen) ==
    /\ gen \in Generators
    /\ Construct("random", 0, random(gen), gen.bytes)

Load(b) ==
    /\ b \in LoadInputs
    /\ Construct("load", 0, load(b), b)

Clone(k) ==
    /\ st[k] = "live"
    /\ Construct("clone", k, Ok(clone(keys[k])), keys[k].key)

Deserialize(blob) ==
    /\ blob \in Blobs
    /\ Construct("deserialize", 0, deserialize(blob),
                 IF "key" \in DOMAIN blob THEN blob.key ELSE <<>>)

Serialize(k) ==
    /\ st[k] = "live"
    /\ last' = Op("serialize", k, 0, Ok(None), serialize(keys[k]).key)
    /\ UNCHANGED <<keys, st, calls, attached, origin, box>>

OnDrop(k, hook) ==
    /\ st[k] = "live"
    /\ keys' = [keys EXCEPT ![k] = on_drop(keys[k], hook)]
    /\ attached' = [attached EXCEPT ![k] =
                        [hook |-> hook,
                         n |-> IF keys[k].drop_fn \notin {None, hook} THEN 2
                               ELSE IF attached[k].n = 0 THEN 1 ELSE attached[k].n]]
    /\ last' = [Op("on_drop", k, 0, Ok(None), <<>>) EXCEPT !.hook = keys[k].drop_fn]
    /\ UNCHANGED <<st, calls, origin, box>>

Bytes(k) ==
    /\ st[k] = "live"
    /\ last' = Op("bytes", k, 0, Ok(None), bytes(keys[k]))
    /\ UNCHANGED <<keys, st, calls, attached, origin, box>>

Eq(k, j) ==
    /\ st[k] = "live" /\ st[j] = "live"
    /\ last' = [Op("eq", k, j, Ok(None), <<>>) EXCEPT !.ok = eq(keys[k], keys[j])]
    /\ UNCHANGED <<keys, st, calls, attached, origin, box>>

Hash(k) ==
    /\ st[k] = "live"
    /\ last' = Op("hash", k, 0, Ok(None), hash(keys[k]))
    /\ UNCHANGED <<keys, st, calls, attached, origin, box>>

\* the Key goes out of scope: Drop::drop runs, then the buffer is released
DropKey(k) ==
    /\ st[k] = "live"
    /\ LET d == drop(keys[k])
       IN /\ calls' = [calls EXCEPT ![k] = calls[k] \o [i \in 1..Len(d) |-> d[i].hook]]
          /\ last' = [Op("drop", k, 0, Ok(None), keys[k].key) EXCEPT !.calls = d]
    /\ keys' = [keys EXCEPT ![k] = Freed]
    /\ st' = [st EXCEPT ![k] = "dropped"]
    /\ UNCHANGED <<attached, origin, box>>

\* a caller mutates the buffer through `pub key: Vec<u8>` (push, truncate,
\* index assignment, ...), leaving the vector v
FieldWrite(k, v) ==
    /\ st[k] = "live"
    /\ keys[k].key # v
    /\ keys' = [keys EXCEPT ![k].key = v]
    /\ last' = Op("key=", k, 0, Ok(None), v)
    /\ UNCHANGED <<st, calls, attached, origin, box>>

Next ==
    \/ \E gen \in Generators : Random(gen)
    \/ \E b \in LoadInputs : Load(b)
    \/ \E k \in KeyIds : Clone(k)
    \/ \E blob \in Blobs : Deserialize(blob)
    \/ \E k \in KeyIds : Serialize(k)
    \/ \E k \in KeyIds, h \in Hooks : OnDrop(k, h)
    \/ \E k \in KeyIds : DropKey(k)
    \/ \E k \in KeyIds, v \in BufValues : FieldWrite(k, v)

Spec == Init /\ [][Next]_vars

----------------------------------------------------------------------------
(* Operations on keys a caller holds *)

\* the ghost record of a key that was deserialized and then given its hook
Held(K) ==
    /\ keys \in [KeyIds -> KeyValues \cup {Freed}]
    /\ \A k \in KeyIds : (k \in K) <=> (keys[k] # Freed)
    /\ st = [k \in KeyIds |-> IF k \in K THEN "live" ELSE "none"]
    /\ calls = [k \in KeyIds |-> <<>>]
    /\ attached = [k \in KeyIds |->
                      IF keys[k].drop_fn = None THEN NoAttach
                      ELSE [hook |-> keys[k].drop_fn, n |-> 1]]
    /\ origin = [k \in KeyIds |-> None]
    /\ last = Op("init", 0, 0, Ok(None), <<>>)
    /\ box = NoBox

InitView == Held(KeyIds)

NextView ==
    \/ \E k \in KeyIds : Bytes(k)
    \/ \E k \in KeyIds, j \in KeyIds : Eq(k, j)
    \/ \E k \in KeyIds : Hash(k)

SpecView == InitView /\ [][NextView]_vars

Encrypt(k, pt, ad, entropy) ==
    /\ st[k] = "live"
    /\ LET r == encrypt(pt, keys[k], ad, entropy)
       IN /\ box' = [NoBox EXCEPT !.pt = pt, !.ad = ad, !.k = k, !.sealed = r.ok,
                                  !.ct = IF r.ok THEN r.val ELSE NoValue]
          /\ last' = Op("encrypt", k, 0, r, as_ref(pt))
    /\ UNCHANGED <<keys, st, calls, attached, origin>>

\* the stored ciphertext is altered: one byte flipped
Corrupt(i) ==
    /\ box.ct.kind = "sealed"
    /\ box.sealed
    /\ i \in 1..Len(box.ct.bytes)
    /\ box' = [box EXCEPT !.ct.bytes[i] = 1 - @, !.sealed = FALSE]
    /\ last' = Op("corrupt", 0, 0, Ok(None), <<>>)
    /\ UNCHANGED <<keys, st, calls, attached, origin>>

\* the stored ciphertext is cut short
Truncate ==
    /\ box.ct.kind = "sealed"
    /\ box.sealed
    /\ box' = [box EXCEPT !.ct.bytes = <<>>, !.sealed = FALSE]
    /\ last' = Op("truncate", 0, 0, Ok(None), <<>>)
    /\ UNCHANGED <<keys, st, calls, attached, origin>>

Decrypt(k, ad) ==
    /\ st[k] = "live"
    /\ box.ct.kind = "sealed"
    /\ LET d == decrypt(box.ct, keys[k], ad)
       IN /\ box' = [box EXCEPT !.dad = ad, !.conv = d.conv,
                                 !.val = IF d.res.ok THEN d.res.val ELSE NoValue]
          /\ last' = Op("decrypt", k, 0, d.res, as_ref(box.ct))
    /\ UNCHANGED <<keys, st, calls, attached, origin>>

InitBox == Held({1})

NextBox ==
    \/ \E pt \in Plaintexts, ad \in Ads, e \in BOOLEAN : Encrypt(1, pt, ad, e)
    \/ \E i \in 1..(MaxData + box_overhead) : Corrupt(i)
    \/ Truncate
    \/ \E ad \in Ads : Decrypt(1, ad)

SpecBox == InitBox /\ [][NextBox]_vars

----------------------------------------------------------------------------
(* Properties *)

\* the hook a key carries when it is destroyed: the latest one registered
\* with on_drop, else the one it was constructed with
Expected(k) == IF attached[k].n > 0 THEN attached[k].hook ELSE origin[k]

\* C1: load(b) succeeds iff len(b) = key_length(); on success the new key has
\* bytes() = b and no hook; on failure the error is InterfaceError and no
\* Key was made.
C1_LoadContract ==
    last.op = "load" =>
        /\ last.ok <=> (Len(last.out) = box_key_len)
        /\ last.ok =>
              /\ last.k \in Live
              /\ bytes(keys[last.k]) = last.out
              /\ keys[last.k].drop_fn = None
              /\ Cardinality(Constructed) = last.n + 1
        /\ ~last.ok =>
              /\ last.err = InterfaceError
              /\ last.k = 0
              /\ Cardinality(Constructed) = last.n

C1_Witness ==
    /\ last.op = "load"
    /\ last.ok
    /\ Len(last.out) = box_key_len
    /\ last.k \in Live
    /\ bytes(keys[last.k]) = last.out

\* C2: every live Key has len(raw) = key_length(), whatever constructed it
\* and whatever the public interface did to it since.
C2_KeyLength == \A k \in Live : Len(keys[k].key) = box_key_len

\* C3: destroying a key invokes the hook attached at that moment exactly
\* once, with the buffer as bytes() gave it just before; with no hook
\* attached nothing is invoked; a live key has had no hook invoked, and
\* nothing is invoked on a key after its destruction.
C3_HookOnceAtDrop ==
    [][\A k \in KeyIds :
        /\ (st[k] = "live" /\ st'[k] = "dropped") =>
              /\ calls'[k] = IF keys[k].drop_fn # None THEN <<keys[k].drop_fn>> ELSE <<>>
              /\ last'.calls = IF keys[k].drop_fn # None
                                THEN <<[hook |-> keys[k].drop_fn, buf |-> bytes(keys[k])]>>
                                ELSE <<>>
        /\ st'[k] = "live" => calls'[k] = <<>>
        /\ st[k] = "dropped" => (st'[k] = "dropped" /\ calls'[k] = calls[k])]_vars

C3_Witness ==
    /\ last.op = "drop"
    /\ st[last.k] = "dropped"
    /\ Len(calls[last.k]) = 1
    /\ Len(last.calls) = 1
    /\ last.calls[1].buf = last.out
    /\ \E i \in 1..Len(last.out) : last.out[i] # 0

\* C6: clone gives a key with the same bytes and the same hook and invokes
\* nothing; destroying a key or changing its hook leaves every other key's
\* bytes, hook and invocations as they were; once no key is live, every key
\* has invoked the hook it carried exactly once (a hooked key and its n
\* clones: n + 1 invocations).
C6_CloneIndependent ==
    [][/\ last'.op = "clone" =>
            /\ keys'[last'.k].key = keys[last'.j].key
            /\ keys'[last'.k].drop_fn = keys[last'.j].drop_fn
            /\ calls' = calls
            /\ \A j \in KeyIds \ {last'.k} : keys'[j] = keys[j]
       /\ \A k \in KeyIds :
            (st[k] = "live" /\ (st'[k] = "dropped" \/ keys'[k].drop_fn # keys[k].drop_fn)) =>
                \A j \in KeyIds \ {k} :
                    keys'[j] = keys[j] /\ calls'[j] = calls[j] /\ st'[j] = st[j]
       /\ (\A k \in KeyIds : st'[k] # "live") =>
            \A k \in KeyIds : st'[k] = "dropped" =>
                calls'[k] = IF Expected(k)' # None THEN <<Expected(k)'>> ELSE <<>>]_vars

C6_Witness ==
    \E k \in KeyIds, c \in KeyIds :
        /\ k # c
        /\ st[k] = "dropped" /\ st[c] = "dropped"
        /\ origin[k] = None /\ attached[k].n > 0
        /\ origin[c] = attached[k].hook /\ attached[c].n = 0
        /\ calls[k] = <<attached[k].hook>>
        /\ calls[c] = calls[k]

\* C7: a key has one active hook, the one given to the latest on_drop call,
\* and destroying the key invokes that hook once and no earlier one.
C7_LatestHookOnly ==
    \A k \in KeyIds :
        attached[k].n > 0 =>
            /\ st[k] = "live" => keys[k].drop_fn = attached[k].hook
            /\ st[k] = "dropped" => calls[k] = <<attached[k].hook>>

C7_Witness ==
    \E k \in KeyIds :
        /\ st[k] = "dropped"
        /\ attached[k].n = 2
        /\ origin[k] = None
        /\ calls[k] = <<attached[k].hook>>

\* C9: the buffer of a live key never changes.
C9_RawFrozen ==
    [][\A k \in KeyIds :
        (st[k] = "live" /\ st'[k] = "live") => keys'[k].key = keys[k].key]_vars

\* C10: the serialized form holds the bytes and no hook; deserializing the
\* serialized form of any key gives a key with the same bytes and no hook;
\* serializing changes no key and invokes nothing; a deserialized key that
\* got no hook through on_drop invokes nothing when destroyed.
C10_HookNotSerialized ==
    [][/\ \A k \in KeyIds : st'[k] = "live" =>
            /\ DOMAIN serialize(keys'[k]) = {"key", "_box_provider"}
            /\ deserialize(serialize(keys'[k])) = Ok(MkKey(bytes(keys'[k]), None))
       /\ last'.op = "serialize" =>
            /\ last'.out = bytes(keys[last'.k])
            /\ keys' = keys /\ st' = st /\ calls' = calls
       /\ (last'.op = "deserialize" /\ last'.ok) =>
            /\ keys'[last'.k] = MkKey(last'.out, None)
            /\ origin'[last'.k] = None
            /\ calls' = calls
       /\ \A k \in KeyIds :
            (st'[k] = "dropped" /\ origin'[k] = None /\ attached'[k].n = 0) => calls'[k] = <<>>]_vars

C10_Witness ==
    /\ last.op = "deserialize"
    /\ last.ok
    /\ st[last.k] = "live"
    /\ keys[last.k].drop_fn = None
    /\ \E j \in Live : /\ j # last.k
                       /\ keys[j].drop_fn # None
                       /\ bytes(keys[j]) = bytes(keys[last.k])

\* C8: two keys are equal iff their bytes are, equal keys hash alike, with
\* any hooks; a clone equals its source and hashes like it.
C8_EqHashOverRaw ==
    /\ \A k \in Live, j \in Live :
          /\ eq(keys[k], keys[j]) <=> (bytes(keys[k]) = bytes(keys[j]))
          /\ eq(keys[k], keys[j]) => hash(keys[k]) = hash(keys[j])
    /\ \A k \in Live :
          /\ eq(clone(keys[k]), keys[k])
          /\ hash(clone(keys[k])) = hash(keys[k])
    /\ last.op = "eq" => (last.ok <=> (bytes(keys[last.k]) = bytes(keys[last.j])))

C8_Witness ==
    /\ last.op = "eq"
    /\ last.ok
    /\ last.k # last.j
    /\ keys[last.k].drop_fn # keys[last.j].drop_fn

\* C4: decrypting, with the same key and associated data, the ciphertext
\* that encrypt made of a payload succeeds and returns that payload.
C4_RoundTrip ==
    /\ (/\ last.op = "decrypt"
        /\ box.sealed
        /\ box.k = last.k
        /\ box.dad = box.ad
        /\ box.pt.kind = "payload") => (last.ok /\ box.val = box.pt)
    /\ \A k \in Live, pt \in Plaintexts, ad \in Ads :
          pt.kind = "payload" =>
              LET c == encrypt(pt, keys[k], ad, TRUE)
              IN c.ok /\ decrypt(c.val, keys[k], ad).res = Ok(pt)

C4_Witness ==
    /\ last.op = "decrypt"
    /\ box.sealed
    /\ box.dad = box.ad
    /\ box.ad # <<>>
    /\ box.pt.kind = "payload"
    /\ box.ct.bytes # box.pt.bytes
    /\ last.ok
    /\ box.val = box.pt

\* C5: when open fails decrypt returns open's error and converts nothing;
\* when open succeeds and the conversion fails decrypt returns the invalid
\* entry error, which is neither an error of open nor the conversion's.
C5_DecryptFailures ==
    last.op = "decrypt" =>
        LET o == box_open(keys[last.k], box.dad, last.out)
        IN /\ ~o.ok =>
                /\ ~last.ok
                /\ last.err = o.err
                /\ last.err # InvalidEntry
                /\ box.conv = <<>>
           /\ o.ok =>
                /\ box.conv = <<o.val>>
                /\ last.ok <=> try_from(o.val).ok
                /\ ~try_from(o.val).ok =>
                      /\ last.err = InvalidEntry
                      /\ last.err \notin CryptoErrors
                      /\ last.err # try_from(o.val).err

C5_Witness ==
    /\ last.op = "decrypt"
    /\ box.sealed
    /\ box.dad = box.ad
    /\ ~last.ok
    /\ last.err = InvalidEntry
    /\ box.conv = <<box.pt.bytes>>

====
